---- MODULE Spec2Model ----
(***************************************************************************)
(* Model of library_management.py: the Book value object, the Library      *)
(* (books, next_id) with add_book / remove_book / search_books /           *)
(* change_status / save_to_file / load_from_file, and the JSON file the    *)
(* library is persisted in.                                                *)
(*                                                                         *)
(* Python strings are modelled as sequences of one-character strings, so   *)
(* that `in` (substring containment) and str(year) are computed.  The two  *)
(* status texts of the program are Cyrillic; they are written here in      *)
(* Latin transliteration.                                                  *)
(***************************************************************************)
EXTENDS Integers, Sequences, FiniteSets, TLC

VARIABLES books, next_id, file, call, max_assigned, shell

vars == <<books, next_id, file, call, max_assigned, shell>>

(***************************************************************************)
(* Bounds of the model.                                                    *)
(***************************************************************************)
MaxBooks == 2      \* add_book is not called on a list already this long
MaxId == 3         \* add_book is not called once next_id exceeds this

(***************************************************************************)
(* Input values.                                                           *)
(***************************************************************************)
DefaultStatus == <<"v", "n">>          \* "в наличии", Book.__init__ default
IssuedStatus == <<"v", "y">>           \* "выдана"
Statuses == {DefaultStatus, IssuedStatus}

\* (title, author, year) triples handed to add_book
BookInputs == { [title |-> <<"a", "b">>, author |-> <<"x">>, year |-> 12],
                [title |-> <<"b">>, author |-> <<"a", "y">>, year |-> 1] }

SearchTerms == { <<>>, <<"a">>, <<"1">> }

(***************************************************************************)
(* Helpers.                                                                *)
(***************************************************************************)
Max(S) == CHOOSE m \in S : \A n \in S : n <= m

\* Python's None, a JSON null: a value that equals no int.  It is encoded as
\* an integer that is no id, title or year of the model; it is never ordered
\* or added to, since the code raises TypeError where it would be.
None == 0 - 1

Ids(bs) == { bs[i].book_id : i \in 1..Len(bs) }

HasId(bs, book_id) == \E i \in 1..Len(bs) : bs[i].book_id = book_id

(***************************************************************************)
(* Book                                                                    *)
(***************************************************************************)
Book(book_id, title, author, year, status) ==
    [book_id |-> book_id, title |-> title, author |-> author,
     year |-> year, status |-> status]

\* to_dict that leaves the status out of the mapping
to_dict_without_status(book) ==
    [book_id |-> book.book_id, title |-> book.title, author |-> book.author,
     year |-> book.year]

\* to_dict that writes the id under the key "id"
to_dict_id_key(book) ==
    [id |-> book.book_id, title |-> book.title, author |-> book.author,
     year |-> book.year, status |-> book.status]

\* Book.to_dict: the mapping json.dump writes for one book
to_dict(book) ==
    [book_id |-> book.book_id, title |-> book.title, author |-> book.author,
     year |-> book.year, status |-> book.status]

(***************************************************************************)
(* The file.  kind is "absent" (no such file), "empty" (zero length),      *)
(* "invalid" (non-empty, json.load raises JSONDecodeError) or "json" (a    *)
(* JSON array whose elements are the objects in data).  An object is a     *)
(* function from its keys to its values.                                   *)
(***************************************************************************)
AbsentFile == [kind |-> "absent", data |-> <<>>]
EmptyFile == [kind |-> "empty", data |-> <<>>]
InvalidFile == [kind |-> "invalid", data |-> <<>>]
JsonFile(objects) == [kind |-> "json", data |-> objects]

RequiredKeys == {"book_id", "title", "author", "year"}

\* objects an external writer may put in the file: complete ones without
\* and with the optional status, and one lacking required keys
FileObjects ==
    { [book_id |-> 1, title |-> <<"a", "b">>, author |-> <<"x">>, year |-> 12],
      [book_id |-> 1, title |-> <<"b">>, author |-> <<"a", "y">>, year |-> 1,
       status |-> IssuedStatus],
      [book_id |-> 2, title |-> <<"b">>, author |-> <<"a", "y">>, year |-> 1,
       status |-> IssuedStatus],
      [title |-> <<"b">>, author |-> <<"x">>] }

\* an object whose book_id is null
NoneIdObject ==
    [book_id |-> None, title |-> <<"a", "b">>, author |-> <<"x">>, year |-> 12]

\* the JSON arrays an external writer may put in the file
ObjectSeqs ==
    {<<>>} \cup { <<o>> : o \in FileObjects }
           \cup { <<o, p>> : o \in FileObjects, p \in FileObjects }
           \cup { <<NoneIdObject>> }
           \cup { <<NoneIdObject, p>> : p \in { o \in FileObjects :
                                                 "book_id" \in DOMAIN o
                                                 /\ o.book_id = 2 } }

ExternalFiles ==
    {AbsentFile, EmptyFile, InvalidFile} \cup { JsonFile(s) : s \in ObjectSeqs }

WellFormed(objects) ==
    \A i \in 1..Len(objects) : RequiredKeys \subseteq DOMAIN objects[i]

\* max(book.book_id ...) + 1 can be computed: no id is None
NumericIds(bs) == \A i \in 1..Len(bs) : bs[i].book_id # None

(***************************************************************************)
(* Library                                                                 *)
(***************************************************************************)
\* add_book that takes the id from the length of the list
add_book_id_from_length(bs, nid, title, author, year) ==
    [books |-> Append(bs, Book(Len(bs) + 1, title, author, year, DefaultStatus)),
     next_id |-> nid + 1,
     raised |-> "none"]

\* add_book that passes author and title in the wrong order
add_book_swapped(bs, nid, title, author, year) ==
    [books |-> Append(bs, Book(nid, author, title, year, DefaultStatus)),
     next_id |-> nid + 1,
     raised |-> "none"]

\* Library.add_book
add_book(bs, nid, title, author, year) ==
    [books |-> Append(bs, Book(nid, title, author, year, DefaultStatus)),
     next_id |-> nid + 1,
     raised |-> "none"]

\* remove_book whose ValueError is not caught
remove_book_uncaught(bs, book_id) ==
    IF Len(bs) = 0 \/ ~ \E i \in 1..Len(bs) : bs[i].book_id = book_id
    THEN [books |-> bs, report |-> "NotFound", raised |-> "ValueError"]
    ELSE [books |-> SelectSeq(bs, LAMBDA b : b.book_id # book_id),
          report |-> "ok", raised |-> "none"]

\* Library.remove_book: the ValueError is caught and printed inside
remove_book(bs, book_id) ==
    IF Len(bs) = 0 \/ ~ \E i \in 1..Len(bs) : bs[i].book_id = book_id
    THEN [books |-> bs, report |-> "NotFound", raised |-> "none"]
    ELSE [books |-> SelectSeq(bs, LAMBDA b : b.book_id # book_id),
          report |-> "ok", raised |-> "none"]

\* change_status that does not stop at the first book with the id
change_status_every_match(bs, book_id, new_status) ==
    IF \E i \in 1..Len(bs) : bs[i].book_id = book_id
    THEN [books |-> [i \in 1..Len(bs) |->
                        IF bs[i].book_id = book_id
                        THEN [bs[i] EXCEPT !.status = new_status]
                        ELSE bs[i]],
          report |-> "ok", raised |-> "none"]
    ELSE [books |-> bs, report |-> "NotFound", raised |-> "none"]

\* Library.change_status: the first book with the id gets the status
change_status(bs, book_id, new_status) ==
    IF \E i \in 1..Len(bs) : bs[i].book_id = book_id
    THEN LET first == CHOOSE i \in 1..Len(bs) :
                         /\ bs[i].book_id = book_id
                         /\ \A j \in 1..(i - 1) : bs[j].book_id # book_id
         IN  [books |-> [bs EXCEPT ![first].status = new_status],
              report |-> "ok", raised |-> "none"]
    ELSE [books |-> bs, report |-> "NotFound", raised |-> "none"]

\* Python's `sub in text` on strings
Contains(sub, text) ==
    \E i \in 1..(Len(text) - Len(sub) + 1) :
        SubSeq(text, i, i + Len(sub) - 1) = sub

Digit(d) == CASE d = 0 -> "0" [] d = 1 -> "1" [] d = 2 -> "2" [] d = 3 -> "3"
              [] d = 4 -> "4" [] d = 5 -> "5" [] d = 6 -> "6" [] d = 7 -> "7"
              [] d = 8 -> "8" [] d = 9 -> "9"

RECURSIVE Decimal(_)
Decimal(n) == IF n < 10 THEN <<Digit(n)>>
              ELSE Append(Decimal(n \div 10), Digit(n % 10))

\* Python's str(n) for an int
str(n) == IF n < 0 THEN <<"-">> \o Decimal(0 - n) ELSE Decimal(n)

\* search_books that looks for the term inside the year's digits
search_books_year_substring(bs, search_term) ==
    SelectSeq(bs, LAMBDA book : \/ Contains(search_term, book.title)
                                \/ Contains(search_term, book.author)
                                \/ Contains(search_term, str(book.year)))

\* Library.search_books
search_books(bs, search_term) ==
    SelectSeq(bs, LAMBDA book : \/ Contains(search_term, book.title)
                                \/ Contains(search_term, book.author)
                                \/ search_term = str(book.year))

\* Library.save_to_file: the file is overwritten with the list of to_dict
save_to_file(bs) == JsonFile([i \in 1..Len(bs) |-> to_dict(bs[i])])

\* data.get('status', default) and the Book built from one JSON object
from_dict(data) ==
    Book(data.book_id, data.title, data.author, data.year,
         IF "status" \in DOMAIN data THEN data.status ELSE DefaultStatus)

\* load_from_file that empties the library before it parses the file
load_from_file_clears(bs, nid, f) ==
    IF f.kind = "absent"
    THEN [books |-> bs, next_id |-> nid, report |-> "FileNotFound",
          replaced |-> FALSE, raised |-> "none"]
    ELSE IF f.kind = "empty"
    THEN [books |-> bs, next_id |-> nid, report |-> "Empty",
          replaced |-> FALSE, raised |-> "none"]
    ELSE IF f.kind = "invalid"
    THEN [books |-> <<>>, next_id |-> 1, report |-> "FormatError",
          replaced |-> FALSE, raised |-> "none"]
    ELSE IF ~ WellFormed(f.data)
    THEN [books |-> bs, next_id |-> nid, report |-> "none",
          replaced |-> FALSE, raised |-> "KeyError"]
    ELSE LET loaded == [i \in 1..Len(f.data) |-> from_dict(f.data[i])]
         IN  IF ~ NumericIds(loaded)
             THEN [books |-> loaded, next_id |-> nid, report |-> "none",
                   replaced |-> TRUE, raised |-> "TypeError"]
             ELSE [books |-> loaded,
                   next_id |-> IF Len(loaded) # 0 THEN Max(Ids(loaded)) + 1
                               ELSE 1,
                   report |-> "ok", replaced |-> TRUE, raised |-> "none"]

\* load_from_file that adds the loaded books to the ones held
load_from_file_extends(bs, nid, f) ==
    IF f.kind = "absent"
    THEN [books |-> bs, next_id |-> nid, report |-> "FileNotFound",
          replaced |-> FALSE, raised |-> "none"]
    ELSE IF f.kind = "empty"
    THEN [books |-> bs, next_id |-> nid, report |-> "Empty",
          replaced |-> FALSE, raised |-> "none"]
    ELSE IF f.kind = "invalid"
    THEN [books |-> bs, next_id |-> nid, report |-> "FormatError",
          replaced |-> FALSE, raised |-> "none"]
    ELSE IF ~ WellFormed(f.data)
    THEN [books |-> bs, next_id |-> nid, report |-> "none",
          replaced |-> FALSE, raised |-> "KeyError"]
    ELSE LET loaded == [i \in 1..Len(f.data) |-> from_dict(f.data[i])]
         IN  IF ~ NumericIds(loaded)
             THEN [books |-> bs \o loaded, next_id |-> nid, report |-> "none",
                   replaced |-> TRUE, raised |-> "TypeError"]
             ELSE [books |-> bs \o loaded,
                   next_id |-> IF Len(loaded) # 0 THEN Max(Ids(loaded)) + 1
                               ELSE 1,
                   report |-> "ok", replaced |-> TRUE, raised |-> "none"]

\* Library.load_from_file
load_from_file(bs, nid, f) ==
    IF f.kind = "absent"
    THEN [books |-> bs, next_id |-> nid, report |-> "FileNotFound",
          replaced |-> FALSE, raised |-> "none"]
    ELSE IF f.kind = "empty"
    THEN [books |-> bs, next_id |-> nid, report |-> "Empty",
          replaced |-> FALSE, raised |-> "none"]
    ELSE IF f.kind = "invalid"
    THEN [books |-> bs, next_id |-> nid, report |-> "FormatError",
          replaced |-> FALSE, raised |-> "none"]
    ELSE IF ~ WellFormed(f.data)
    THEN [books |-> bs, next_id |-> nid, report |-> "none",
          replaced |-> FALSE, raised |-> "KeyError"]
    ELSE LET loaded == [i \in 1..Len(f.data) |-> from_dict(f.data[i])]
         IN  IF ~ NumericIds(loaded)
             THEN [books |-> loaded, next_id |-> nid, report |-> "none",
                   replaced |-> TRUE, raised |-> "TypeError"]
             ELSE [books |-> loaded,
                   next_id |-> IF Len(loaded) # 0 THEN Max(Ids(loaded)) + 1
                               ELSE 1,
                   report |-> "ok", replaced |-> TRUE, raised |-> "none"]

(***************************************************************************)
(* State machine.  call is the last operation called, with its arguments,  *)
(* what it reported and the exception that left it ("none" when none       *)
(* did); max_assigned is the largest id handed out by add_book since the   *)
(* Library was created, or installed by the last load that replaced the    *)
(* books, and 0 when there is none (the ids of the model are positive or   *)
(* None, and None is no id to compare).  shell is the state of main_menu:  *)
(* where it is, the choice it read last and how many Library operations    *)
(* the last iteration called; it is "none" where the Library is used       *)
(* without main_menu.                                                      *)
(***************************************************************************)
Largest(bs) == IF Ids(bs) \ {None} = {} THEN 0 ELSE Max(Ids(bs) \ {None})

\* the call repeats a remove of the same id that found its book
Repeats(c, book_id) ==
    c.op = "remove" /\ c.book_id = book_id /\ c.report = "ok"

\* Library.__init__
Init ==
    /\ books = <<>>
    /\ next_id = 1
    /\ file = AbsentFile
    /\ call = [op |-> "init"]
    /\ max_assigned = 0
    /\ shell = [pc |-> "none"]

AddBook(in) ==
    /\ Len(books) < MaxBooks
    /\ next_id <= MaxId
    /\ LET r == add_book(books, next_id, in.title, in.author, in.year) IN
         /\ books' = r.books
         /\ next_id' = r.next_id
         /\ call' = [op |-> "add", title |-> in.title, author |-> in.author,
                     year |-> in.year, raised |-> r.raised]
    /\ max_assigned' = Max({max_assigned, books'[Len(books')].book_id})
    /\ UNCHANGED file

RemoveBook(book_id) ==
    /\ LET r == remove_book(books, book_id) IN
         /\ books' = r.books
         /\ call' = [op |-> "remove", book_id |-> book_id,
                     report |-> r.report, raised |-> r.raised,
                     again |-> Repeats(call, book_id)]
    /\ UNCHANGED <<next_id, file, max_assigned>>

ChangeStatus(book_id, new_status) ==
    /\ LET r == change_status(books, book_id, new_status) IN
         /\ books' = r.books
         /\ call' = [op |-> "change_status", book_id |-> book_id,
                     report |-> r.report, raised |-> r.raised]
    /\ UNCHANGED <<next_id, file, max_assigned>>

\* a search that keeps only the books it found
SearchBooksKeepsResults(search_term) ==
    /\ call' = [op |-> "search", search_term |-> search_term,
                results |-> search_books(books, search_term),
                again |-> call.op = "search"
                          /\ call.search_term = search_term]
    /\ books' = search_books(books, search_term)
    /\ UNCHANGED <<next_id, file, max_assigned>>

SearchBooks(search_term) ==
    /\ call' = [op |-> "search", search_term |-> search_term,
                results |-> search_books(books, search_term),
                again |-> call.op = "search"
                          /\ call.search_term = search_term]
    /\ UNCHANGED <<books, next_id, file, max_assigned>>

Save ==
    /\ file' = save_to_file(books)
    /\ call' = [op |-> "save",
                over |-> [kind |-> file.kind, len |-> Len(file.data)]]
    /\ UNCHANGED <<books, next_id, max_assigned>>

Load ==
    /\ LET r == load_from_file(books, next_id, file) IN
         /\ books' = r.books
         /\ next_id' = r.next_id
         /\ call' = [op |-> "load", report |-> r.report, raised |-> r.raised]
         /\ max_assigned' = IF r.replaced THEN Largest(r.books)
                            ELSE max_assigned
    /\ UNCHANGED file

\* a new process: library = Library(); library.load_from_file(...)
Restart ==
    /\ LET r == load_from_file(<<>>, 1, file) IN
         /\ books' = r.books
         /\ next_id' = r.next_id
         /\ call' = [op |-> "restart", report |-> r.report, raised |-> r.raised,
                     after_save |-> call.op = "save"]
         /\ max_assigned' = IF r.replaced THEN Largest(r.books) ELSE 0
    /\ UNCHANGED file

\* another program writes or deletes the file
EnvWrite(f) ==
    /\ file' = f
    /\ call' = [op |-> "env_write"]
    /\ UNCHANGED <<books, next_id, max_assigned>>

Add == \E in \in BookInputs : AddBook(in) /\ UNCHANGED shell

Remove == \E book_id \in 1..MaxId : RemoveBook(book_id) /\ UNCHANGED shell

Change == \E book_id \in 1..MaxId, new_status \in Statuses :
              ChangeStatus(book_id, new_status) /\ UNCHANGED shell

Search == \E search_term \in SearchTerms :
              SearchBooks(search_term) /\ UNCHANGED shell

SaveFile == Save /\ UNCHANGED shell

LoadFile == Load /\ UNCHANGED shell

NewProcess == Restart /\ UNCHANGED shell

Write == \E f \in ExternalFiles : EnvWrite(f) /\ UNCHANGED shell

Next ==
    \/ Add
    \/ Remove
    \/ Change
    \/ Search
    \/ SaveFile
    \/ LoadFile
    \/ NewProcess
    \/ Write

Spec == Init /\ [][Next]_vars

\* one Library on which only add_book and remove_book are called
NextAddRemove ==
    \/ Add
    \/ Remove

SpecAddRemove == Init /\ [][NextAddRemove]_vars

\* one Library that is changed in memory and loads files written elsewhere
NextFiles ==
    \/ Add
    \/ Remove
    \/ Change
    \/ LoadFile
    \/ Write

SpecFiles == Init /\ [][NextFiles]_vars

\* the same, with searches
NextSearch ==
    \/ Add
    \/ Remove
    \/ Change
    \/ Search
    \/ LoadFile
    \/ Write

SpecSearch == Init /\ [][NextSearch]_vars

\* a Library that is changed in memory and saved, and new processes that
\* load what it saved
NextSaveLoad ==
    \/ Add
    \/ Remove
    \/ Change
    \/ SaveFile
    \/ NewProcess

SpecSaveLoad == Init /\ [][NextSaveLoad]_vars

(***************************************************************************)
(* main_menu.  The texts typed at its prompts are sequences of characters; *)
(* int(text) is Python's int on them, for texts of digits and texts that   *)
(* are no number.                                                          *)
(***************************************************************************)
Digits == {"0", "1", "2", "3", "4", "5", "6", "7", "8", "9"}

DigitValue(c) == CASE c = "0" -> 0 [] c = "1" -> 1 [] c = "2" -> 2
                   [] c = "3" -> 3 [] c = "4" -> 4 [] c = "5" -> 5
                   [] c = "6" -> 6 [] c = "7" -> 7 [] c = "8" -> 8
                   [] c = "9" -> 9

RECURSIVE DecimalValue(_)
DecimalValue(text) ==
    IF Len(text) = 0 THEN 0
    ELSE 10 * DecimalValue(SubSeq(text, 1, Len(text) - 1))
           + DigitValue(text[Len(text)])

int(text) ==
    IF Len(text) > 0 /\ \A i \in 1..Len(text) : text[i] \in Digits
    THEN [value |-> DecimalValue(text), raised |-> "none"]
    ELSE [value |-> 0, raised |-> "ValueError"]

\* what is typed at the prompts of choice 1
MenuBookInputs ==
    { [title |-> <<"a", "b">>, author |-> <<"x">>, year |-> <<"1", "2">>],
      [title |-> <<"b">>, author |-> <<"a", "y">>, year |-> <<"1">>],
      [title |-> <<"b">>, author |-> <<"x">>, year |-> <<"x">>] }

\* what is typed at the id prompts of choices 2 and 5
MenuIdInputs == { <<"1">>, <<"2">>, <<"3">>, <<"x">> }

\* a choice that is none of '1' to '6'
OtherChoices == { "7", "" }

FileName == "library.json"

\* library = Library(); the file main_menu finds
MenuInit ==
    /\ books = <<>>
    /\ next_id = 1
    /\ file \in ExternalFiles
    /\ call = [op |-> "init"]
    /\ max_assigned = 0
    /\ shell = [pc |-> "start", choice |-> "", invoked |-> 0,
                loaded |-> "", saved |-> ""]

\* the iteration read `choice` and called `n` operations of the Library
Iteration(choice, n) == [shell EXCEPT !.choice = choice, !.invoked = n]

\* the iteration ended with an exception leaving main_menu
Raises(choice) ==
    /\ call' = [op |-> "input", raised |-> "ValueError"]
    /\ shell' = [shell EXCEPT !.pc = "loop_raised", !.choice = choice,
                              !.invoked = 0]
    /\ UNCHANGED <<books, next_id, file, max_assigned>>

\* library.load_from_file("library.json")
MenuStart ==
    /\ shell.pc = "start"
    /\ Restart
    /\ shell' = [shell EXCEPT
                   !.pc = IF call'.raised = "none" THEN "menu"
                          ELSE "start_raised",
                   !.loaded = FileName]

MenuAdd(in) ==
    /\ shell.pc = "menu"
    /\ IF int(in.year).raised = "none"
       THEN /\ AddBook([title |-> in.title, author |-> in.author,
                        year |-> int(in.year).value])
            /\ shell' = Iteration("1", 1)
       ELSE Raises("1")

MenuRemove(text) ==
    /\ shell.pc = "menu"
    /\ IF int(text).raised = "none"
       THEN /\ RemoveBook(int(text).value)
            /\ shell' = Iteration("2", 1)
       ELSE Raises("2")

MenuSearch(search_term) ==
    /\ shell.pc = "menu"
    /\ SearchBooks(search_term)
    /\ shell' = Iteration("3", 1)

\* library.display_books() prints the books
MenuDisplay ==
    /\ shell.pc = "menu"
    /\ call' = [op |-> "display", shown |-> books]
    /\ shell' = Iteration("4", 1)
    /\ UNCHANGED <<books, next_id, file, max_assigned>>

MenuChange(text, new_status) ==
    /\ shell.pc = "menu"
    /\ IF int(text).raised = "none"
       THEN /\ ChangeStatus(int(text).value, new_status)
            /\ shell' = Iteration("5", 1)
       ELSE Raises("5")

\* library.save_to_file("library.json"); break
MenuSaveExit ==
    /\ shell.pc = "menu"
    /\ Save
    /\ shell' = [shell EXCEPT !.pc = "done", !.choice = "6", !.invoked = 1,
                              !.saved = FileName]

MenuOther(choice) ==
    /\ shell.pc = "menu"
    /\ shell' = Iteration(choice, 0)
    /\ UNCHANGED <<books, next_id, file, call, max_assigned>>

Choice1 == \E in \in MenuBookInputs : MenuAdd(in)

Choice2 == \E text \in MenuIdInputs : MenuRemove(text)

Choice3 == \E search_term \in SearchTerms : MenuSearch(search_term)

Choice5 == \E text \in MenuIdInputs, new_status \in Statuses :
               MenuChange(text, new_status)

ChoiceElse == \E choice \in OtherChoices : MenuOther(choice)

MenuNext ==
    \/ MenuStart
    \/ Choice1
    \/ Choice2
    \/ Choice3
    \/ MenuDisplay
    \/ Choice5
    \/ MenuSaveExit
    \/ ChoiceElse

SpecMenu == MenuInit /\ [][MenuNext]_vars

(***************************************************************************)
(* Properties.                                                             *)
(***************************************************************************)
NewBook(in) ==
    [book_id |-> next_id, title |-> in.title, author |-> in.author,
     year |-> in.year, status |-> DefaultStatus]

\* C1: on one Library that only sees add_book and remove_book calls, the id
\* add_book puts on the new book is greater than every id it assigned
\* before: it differs from each of them and exceeds the one assigned last.
AddIdsIncrease ==
    [][\A in \in BookInputs : (call'.op = "add" /\ AddBook(in)) =>
         /\ books'[Len(books')].book_id > max_assigned
         /\ max_assigned' = books'[Len(books')].book_id]_vars

\* an add_book after two ids were assigned and a book was removed
AddAfterRemove ==
    /\ call.op = "add"
    /\ max_assigned = 3
    /\ Len(books) = 1

\* C2: the books held have pairwise distinct ids in every reachable state.
DistinctIds ==
    \A i \in 1..Len(books), j \in 1..Len(books) :
        i # j => books[i].book_id # books[j].book_id

\* C3: after load_from_file of an absent or zero-length file the library
\* holds no books, next_id is 1 and nothing was raised.
LoadOfMissingFileEmpties ==
    (call.op = "load" /\ file.kind \in {"absent", "empty"}) =>
        /\ books = <<>>
        /\ next_id = 1
        /\ call.raised = "none"

SaveLoadRoundTrip ==
    [][(call.op = "save" /\ NumericIds(books) /\ call'.op = "restart"
          /\ Restart) =>
         /\ books' = books
         /\ next_id' = IF Len(books) = 0 THEN 1 ELSE Max(Ids(books)) + 1
         /\ call'.raised = "none"]_vars

\* a new Library that loaded what was just saved: two books, one of them
\* with a changed status, and an id that was removed before the save
RoundTripDone ==
    /\ call.op = "restart"
    /\ call.after_save
    /\ call.report = "ok"
    /\ Len(books) = 2
    /\ \E i \in 1..Len(books) : books[i].status = IssuedStatus
    /\ books[1].book_id > 1

\* C6: load_from_file of a JSON array of complete book objects (the four
\* required keys, an int book_id) makes books
\* the array's objects in the array's order, a missing status read as the
\* default, and next_id one more than the largest id, or 1 for an empty array.
LoadReplaces ==
    [][(file.kind = "json" /\ call'.op = "load" /\ WellFormed(file.data)
          /\ NumericIds(file.data) /\ Load) =>
         /\ Len(books') = Len(file.data)
         /\ \A i \in 1..Len(file.data) :
              /\ books'[i].book_id = file.data[i].book_id
              /\ books'[i].title = file.data[i].title
              /\ books'[i].author = file.data[i].author
              /\ books'[i].year = file.data[i].year
              /\ books'[i].status = IF "status" \in DOMAIN file.data[i]
                                    THEN file.data[i].status
                                    ELSE DefaultStatus
         /\ next_id' = IF Len(file.data) = 0 THEN 1
                       ELSE Max({ file.data[i].book_id :
                                    i \in 1..Len(file.data) }) + 1
         /\ call'.raised = "none"]_vars

\* a load of a two-object array, the larger id first, one object without
\* a status
LoadedArray ==
    /\ call.op = "load"
    /\ call.report = "ok"
    /\ file.kind = "json"
    /\ Len(file.data) = 2
    /\ file.data[1].book_id > file.data[2].book_id
    /\ \E i \in 1..2 : "status" \notin DOMAIN file.data[i]
    /\ Len(books) = 2

\* C7: next_id is one more than the largest id assigned by add_book since the
\* Library was created or installed by the last load that replaced the books,
\* and 1 when there is none.
NextIdFollowsAssigned ==
    next_id = IF max_assigned = 0 THEN 1 ELSE max_assigned + 1

\* C8: remove_book of an id some book has removes exactly one book, one
\* with that id, keeps the others in order and leaves next_id alone.
RemoveTakesOne ==
    [][\A book_id \in 1..MaxId :
         (call'.op = "remove" /\ HasId(books, book_id)
            /\ RemoveBook(book_id)) =>
             /\ Len(books') = Len(books) - 1
             /\ \E k \in 1..Len(books) :
                  /\ books[k].book_id = book_id
                  /\ books' = SubSeq(books, 1, k - 1)
                                \o SubSeq(books, k + 1, Len(books))
             /\ next_id' = next_id]_vars

AddAppends ==
    [][\A in \in BookInputs : (call'.op = "add" /\ AddBook(in)) =>
         /\ books' = Append(books, NewBook(in))
         /\ next_id' = next_id + 1
         /\ call'.raised = "none"]_vars

\* an add_book onto a library that held a book with other inputs
AddedSecond ==
    /\ call.op = "add"
    /\ Len(books) = 2
    /\ books[2].title = call.title
    /\ books[1].title # books[2].title

\* term occurs in text: text is some prefix, then term, then some suffix
Occurs(term, text) ==
    \E i \in 0..Len(text), j \in 0..Len(text) :
        /\ i <= j
        /\ term = [k \in 1..(j - i) |-> text[i + k]]

\* the positions in bs of the books a search for term is to return
Hits(bs, term) ==
    { i \in 1..Len(bs) : \/ Occurs(term, bs[i].title)
                         \/ Occurs(term, bs[i].author)
                         \/ term = str(bs[i].year) }

\* the k-th smallest member of a set of positions
Nth(S, k) == CHOOSE i \in S : Cardinality({ j \in S : j <= i }) = k

\* C11: search_books returns exactly the books whose title or author contains
\* the term or whose year's decimal string equals it, in the order of books;
\* the empty term returns every book.
SearchReturnsMatches ==
    [][\A term \in SearchTerms : (call'.op = "search" /\ SearchBooks(term)) =>
         /\ Len(call'.results) = Cardinality(Hits(books, term))
         /\ \A k \in 1..Len(call'.results) :
              call'.results[k] = books[Nth(Hits(books, term), k)]
         /\ term = <<>> => call'.results = books]_vars

\* a search for "1" over a book of year 12 and a book of year 1 returned
\* the second alone
SearchedYear ==
    /\ call.op = "search"
    /\ call.search_term = <<"1">>
    /\ Len(books) = 2
    /\ books[1].year = 12
    /\ books[2].year = 1
    /\ call.results = <<books[2]>>

\* C12: search_books changes neither books nor next_id, and the same search
\* called again right after it returns the same books in the same order.
SearchReadsOnly ==
    [][\A term \in SearchTerms : (call'.op = "search" /\ SearchBooks(term)) =>
         /\ books' = books
         /\ next_id' = next_id
         /\ call.op = "search" /\ call.search_term = term
              => call'.results = call.results
         /\ search_books(books', term) = call'.results]_vars

\* the same search called twice in a row, on two books of which it
\* returns one
SearchedTwice ==
    /\ call.op = "search"
    /\ call.again
    /\ Len(books) = 2
    /\ Len(call.results) = 1

\* C13: change_status of an id some book has gives the first book with that
\* id the new status and changes nothing else: not its other fields, not
\* another book, not the order, not next_id.
ChangeStatusSetsFirst ==
    [][\A book_id \in 1..MaxId, new_status \in Statuses :
         (call'.op = "change_status" /\ HasId(books, book_id)
            /\ ChangeStatus(book_id, new_status)) =>
             LET first == Nth({ i \in 1..Len(books) :
                                  books[i].book_id = book_id }, 1) IN
             /\ Len(books') = Len(books)
             /\ books'[first].status = new_status
             /\ books'[first].book_id = books[first].book_id
             /\ books'[first].title = books[first].title
             /\ books'[first].author = books[first].author
             /\ books'[first].year = books[first].year
             /\ \A i \in 1..Len(books) : i # first => books'[i] = books[i]
             /\ next_id' = next_id
             /\ call'.raised = "none"]_vars

\* a change_status of an id two books have: the first has the new status,
\* the second kept the default
ChangedFirstOfTwo ==
    /\ call.op = "change_status"
    /\ call.report = "ok"
    /\ Len(books) = 2
    /\ books[1].book_id = call.book_id
    /\ books[2].book_id = call.book_id
    /\ books[1].status = IssuedStatus
    /\ books[2].status = DefaultStatus

\* C14: save_to_file leaves books and next_id unchanged and makes the file,
\* whatever it held, the JSON array of the books in order, each an object
\* with book_id, title, author, year and status; a save right after a save
\* leaves the file as it is.
SaveWritesAllBooks ==
    [][(call'.op = "save" /\ Save) =>
         /\ books' = books
         /\ next_id' = next_id
         /\ file'.kind = "json"
         /\ Len(file'.data) = Len(books)
         /\ \A i \in 1..Len(books) :
              /\ DOMAIN file'.data[i] =
                     {"book_id", "title", "author", "year", "status"}
              /\ file'.data[i].book_id = books[i].book_id
              /\ file'.data[i].title = books[i].title
              /\ file'.data[i].author = books[i].author
              /\ file'.data[i].year = books[i].year
              /\ file'.data[i].status = books[i].status
         /\ call.op = "save" => file' = file]_vars

\* a save of two books over a file that held an array of one
SavedOverShorter ==
    /\ call.op = "save"
    /\ call.over = [kind |-> "json", len |-> 1]
    /\ Len(books) = 2
    /\ file.kind = "json"
    /\ Len(file.data) = 2

\* C17: load_from_file is all or nothing: a load of a JSON array in which an
\* object lacks a required key raises and leaves books and next_id as they
\* were, and so does every load that raises.
LoadIsAllOrNothing ==
    [][(call'.op = "load" /\ Load) =>
         /\ (file.kind = "json" /\ ~ WellFormed(file.data)) =>
                /\ call'.raised # "none"
                /\ books' = books
                /\ next_id' = next_id
         /\ call'.raised # "none" =>
                /\ books' = books
                /\ next_id' = next_id]_vars

\* C16: next_id is greater than the id of every book held.
NextIdAboveIds ==
    \A i \in 1..Len(books) :
        books[i].book_id # None => books[i].book_id < next_id

\* the Library operation main_menu calls for a choice
OpOf(choice) == CASE choice = "1" -> "add" [] choice = "2" -> "remove"
                  [] choice = "3" -> "search" [] choice = "4" -> "display"
                  [] choice = "5" -> "change_status" [] choice = "6" -> "save"

\* C15: an iteration of main_menu's loop that reads one of the six choices
\* calls that choice's Library operation exactly once; one that reads another
\* choice calls none and leaves books, next_id and the file alone; and the
\* loop ends only in an iteration that read '6', once save_to_file was called
\* with the file name that was loaded at the start.
MenuCallsOnceAndEndsOnSave ==
    [][shell.pc = "menu" =>
         /\ shell'.choice \in {"1", "2", "3", "4", "5", "6"} =>
                /\ shell'.invoked = 1
                /\ call'.op = OpOf(shell'.choice)
         /\ shell'.choice \notin {"1", "2", "3", "4", "5", "6"} =>
                /\ shell'.invoked = 0
                /\ UNCHANGED <<books, next_id, file, call>>
         /\ shell'.pc # "menu" =>
                /\ shell'.choice = "6"
                /\ call'.op = "save"
                /\ shell'.saved = shell.loaded]_vars

====
